---- MODULE Spec2Model ----
(***************************************************************************)
(* Model of src/src/mutator/mutator.py: the mutation-list validator        *)
(* (Mutator.parse_mutation_params) and the mutation engine                 *)
(* (Mutator.mutate_client_hello / Mutator.mutate_server_hello).            *)
(*                                                                         *)
(* Python values are modelled as tagged records [type, val, items]:        *)
(*   str   : val is the text                                               *)
(*   int   : val is the numeral                                            *)
(*   None  : type "NoneType"                                               *)
(*   list  : items is the sequence of elements                             *)
(*   dict  : items is the function from keys (strings) to values           *)
(* An exception is a record [type, msg, arg, lineno]: the Python exception *)
(* class, the fixed part of its message, the values formatted into the     *)
(* message, and the source line that raises it.                            *)
(***************************************************************************)
EXTENDS Naturals, Sequences, FiniteSets, TLC

VARIABLES param_str, parsed, mutation_params, origin, call

vars == <<param_str, parsed, mutation_params, origin, call>>

----------------------------------------------------------------------------
(* Bound of the model: the longest mutation list considered.               *)
MaxLen == 2

----------------------------------------------------------------------------
(* Python values                                                           *)

JVal(t, v, it) == [type |-> t, val |-> v, items |-> it]
JStr(s) == JVal("str", s, <<>>)
JInt(s) == JVal("int", s, <<>>)
None == JVal("NoneType", "", <<>>)
JList(seq) == JVal("list", "", seq)
JDict(f) == JVal("dict", "", f)
EmptyDict == JDict(<<>>)

(* Exceptions.  json.JSONDecodeError is a subclass of ValueError.          *)
Raise(t, m, a, l) == [type |-> t, msg |-> m, arg |-> a, lineno |-> l]
NoExc == Raise("", "", <<>>, 0)
IsValueError(e) == e.type \in {"ValueError", "JSONDecodeError"}

----------------------------------------------------------------------------
(* Module constants, mutator.py lines 3-31                                 *)

MUTATIONS_FORMAT ==
    [identity |-> <<>>,
     remove_field |-> <<"field_name">>,
     modify_field |-> <<"field_name", "new_value">>,
     send_additional_packet |-> <<"packet_type", "packet_content">>]

ALLOWED_PACKET_TYPES == <<"ClientHello", "ServerHello">>

ALLOWED_FIELD_NAMES ==
    <<"random", "legacy_session_id", "cipher_suites",
      "legacy_compression_methods", "alpn_protocols", "early_data",
      "key_share", "pre_shared_key", "psk_key_exchange_modes", "server_name",
      "signature_algorithms", "supported_groups", "supported_versions",
      "other_extensions">>

----------------------------------------------------------------------------
(* Python primitives used by the code                                      *)

(* d.get(key, default) on a dict                                           *)
DictGet(d, key, default) ==
    IF key \in DOMAIN d.items THEN d.items[key] ELSE default

(* hash(v) succeeds: lists and dicts are unhashable                        *)
Hashable(v) == v.type \notin {"list", "dict"}

(* v in <list of str constants>: element-wise ==, no hashing               *)
InStrList(v, lst) ==
    v.type = "str" /\ \E i \in DOMAIN lst : lst[i] = v.val

(* sub in s for two str: substring test, tabulated over the strings the    *)
(* model draws (every string contains itself)                              *)
SubstringPairs == {<<"field_name", "a field_name b">>}
IsSubstring(sub, s) == sub = s \/ <<sub, s>> \in SubstringPairs

(* `key in c` is defined for dict (keys), list (elements), str (substring) *)
SupportsIn(c) == c.type \in {"dict", "list", "str"}
PyIn(key, c) ==
    CASE c.type = "dict" -> key \in DOMAIN c.items
      [] c.type = "list" -> \E i \in DOMAIN c.items : c.items[i] = JStr(key)
      [] c.type = "str" -> IsSubstring(key, c.val)
      [] OTHER -> FALSE

----------------------------------------------------------------------------
(* json.loads, line 127.  A raw text is modelled by whether it is          *)
(* well-formed JSON and, if so, the value it denotes.                      *)

Text(v) == [wellformed |-> TRUE, json |-> v]
Malformed == [wellformed |-> FALSE, json |-> None]
NoText == [wellformed |-> FALSE, json |-> JStr("<no text>")]

JsonLoads(s) ==
    IF s.wellformed
    THEN [exc |-> NoExc, value |-> s.json]
    ELSE [exc |-> Raise("JSONDecodeError", "Expecting value", <<>>, 127),
          value |-> None]

(* The keys of a dict as a sequence (iteration order of a dict)            *)
RECURSIVE KeySeq(_)
KeySeq(ks) ==
    IF ks = {} THEN <<>>
    ELSE LET k == CHOOSE x \in ks : TRUE
         IN <<JStr(k)>> \o KeySeq(ks \ {k})

(* `for mutation in param_json`, line 130: a list yields its elements, a   *)
(* dict its keys, a str its characters (the model draws only strings of at *)
(* most one character here); anything else is not iterable.                *)
Iterable(v) == v.type \in {"list", "dict", "str"}
IterSeq(v) ==
    CASE v.type = "list" -> v.items
      [] v.type = "dict" -> KeySeq(DOMAIN v.items)
      [] v.type = "str" -> IF v.val = "" THEN <<>> ELSE <<JStr(v.val)>>
      [] OTHER -> <<>>

----------------------------------------------------------------------------
(* Mutator.parse_mutation_params, lines 107-155                            *)

(* lines 135-136 *)
CheckKind(mutation_type) ==
    IF ~Hashable(mutation_type)
    THEN Raise("TypeError", "unhashable type", <<mutation_type>>, 135)
    ELSE IF ~(mutation_type.type = "str"
              /\ mutation_type.val \in DOMAIN MUTATIONS_FORMAT)
    THEN Raise("ValueError", "Invalid mutation type", <<mutation_type>>, 136)
    ELSE NoExc

(* lines 137-138 *)
CheckTarget(target) ==
    IF ~InStrList(target, <<"client", "server">>)
    THEN Raise("ValueError", "Invalid target", <<target>>, 138)
    ELSE NoExc

(* Variant of CheckKindAndTarget with the two checks in the other order *)
CheckKindAndTarget_TargetFirst(mutation_type, target) ==
    IF CheckTarget(target) # NoExc THEN CheckTarget(target)
    ELSE CheckKind(mutation_type)

(* lines 135-138: the kind check, then the target check *)
CheckKindAndTarget(mutation_type, target) ==
    IF CheckKind(mutation_type) # NoExc THEN CheckKind(mutation_type)
    ELSE CheckTarget(target)

(* fields[field] inside parse_mutation_params, lines 145 and 147 *)
FieldsSubscriptable(fields) == fields.type = "dict"

(* lines 143-148: the body of `for field in required_fields` *)
CheckRequiredField(field, fields, mutation_type) ==
    IF ~SupportsIn(fields)
    THEN Raise("TypeError", "argument is not iterable", <<fields>>, 143)
    ELSE IF ~PyIn(field, fields)
    THEN Raise("ValueError", "Missing required field",
               <<JStr(field), mutation_type>>, 144)
    ELSE IF field = "field_name"
    THEN IF ~FieldsSubscriptable(fields)
         THEN Raise("TypeError", "indices must be integers", <<fields>>, 145)
         ELSE IF ~InStrList(fields.items[field], ALLOWED_FIELD_NAMES)
         THEN Raise("ValueError", "Invalid field name",
                    <<fields.items[field]>>, 146)
         ELSE NoExc
    ELSE IF field = "packet_type"
    THEN IF ~FieldsSubscriptable(fields)
         THEN Raise("TypeError", "indices must be integers", <<fields>>, 147)
         ELSE IF ~InStrList(fields.items[field], ALLOWED_PACKET_TYPES)
         THEN Raise("ValueError", "Invalid packet type",
                    <<fields.items[field]>>, 148)
         ELSE NoExc
    ELSE NoExc

(* lines 141-148: required fields are checked in their declared order *)
RECURSIVE CheckRequiredFields(_, _, _, _)
CheckRequiredFields(required_fields, i, fields, mutation_type) ==
    IF i > Len(required_fields) THEN NoExc
    ELSE LET e == CheckRequiredField(required_fields[i], fields, mutation_type)
         IN IF e # NoExc THEN e
            ELSE CheckRequiredFields(required_fields, i + 1, fields,
                                     mutation_type)

(* Variant of BuildDescriptor that keeps only the required parameters *)
BuildDescriptor_RequiredOnly(mutation_type, target, fields) ==
    LET required ==
            IF mutation_type.val \in DOMAIN MUTATIONS_FORMAT
            THEN {MUTATIONS_FORMAT[mutation_type.val][i] :
                    i \in DOMAIN MUTATIONS_FORMAT[mutation_type.val]}
            ELSE {}
        kept ==
            IF fields.type = "dict"
            THEN JDict([k \in (DOMAIN fields.items) \cap required |->
                          fields.items[k]])
            ELSE fields
    IN JDict([k \in {"mutation_type", "target", "fields"} |->
                CASE k = "mutation_type" -> mutation_type
                  [] k = "target" -> target
                  [] OTHER -> kept])

(* lines 150-152: the descriptor appended for a valid entry *)
BuildDescriptor(mutation_type, target, fields) ==
    JDict([k \in {"mutation_type", "target", "fields"} |->
             CASE k = "mutation_type" -> mutation_type
               [] k = "target" -> target
               [] OTHER -> fields])

(* lines 131-152: one iteration of the loop over the entries *)
ValidateEntry(mutation) ==
    IF mutation.type # "dict"
    THEN [exc |-> Raise("AttributeError", "object has no attribute 'get'",
                        <<mutation>>, 132),
          descriptor |-> None]
    ELSE LET mutation_type == DictGet(mutation, "mutation", None)
             target == DictGet(mutation, "target", None)
             fields == DictGet(mutation, "fields", EmptyDict)
             e1 == CheckKindAndTarget(mutation_type, target)
         IN IF e1 # NoExc THEN [exc |-> e1, descriptor |-> None]
            ELSE LET e2 == CheckRequiredFields(
                               MUTATIONS_FORMAT[mutation_type.val], 1,
                               fields, mutation_type)
                 IN IF e2 # NoExc THEN [exc |-> e2, descriptor |-> None]
                    ELSE [exc |-> NoExc,
                          descriptor |->
                              BuildDescriptor(mutation_type, target, fields)]

(* line 153: mutation_list.append(mutation_params) *)
ListAppend(mutation_list, descriptor) ==
    Append(mutation_list, descriptor)

(* lines 130-155: the loop; an exception abandons mutation_list *)
RECURSIVE ParseLoop(_, _, _)
ParseLoop(entries, i, mutation_list) ==
    IF i > Len(entries)
    THEN [ok |-> TRUE, value |-> mutation_list, exc |-> NoExc]
    ELSE LET r == ValidateEntry(entries[i])
         IN IF r.exc # NoExc
            THEN [ok |-> FALSE, value |-> <<>>, exc |-> r.exc]
            ELSE ParseLoop(entries, i + 1,
                           ListAppend(mutation_list, r.descriptor))

(* lines 127-155 *)
parse_mutation_params(s) ==
    LET loaded == JsonLoads(s)
    IN IF loaded.exc # NoExc
       THEN [ok |-> FALSE, value |-> <<>>, exc |-> loaded.exc]
       ELSE IF ~Iterable(loaded.value)
       THEN [ok |-> FALSE, value |-> <<>>,
             exc |-> Raise("TypeError", "object is not iterable",
                           <<loaded.value>>, 130)]
       ELSE ParseLoop(IterSeq(loaded.value), 1, <<>>)

----------------------------------------------------------------------------
(* Handshake messages.  A message object is [id, attrs]: its identity and  *)
(* the function from the attribute names it exposes to their values.       *)

(* Variant of HasAttr that takes an attribute holding None for missing *)
HasAttr_NotNone(hello, name) ==
    name \in DOMAIN hello.attrs /\ hello.attrs[name] # None

(* hasattr(hello, name) *)
HasAttr(hello, name) == name \in DOMAIN hello.attrs

(* setattr(hello, name, value): assigns, creating the attribute if needed  *)
SetAttr(hello, name, value) ==
    [hello EXCEPT !.attrs =
        [a \in (DOMAIN hello.attrs) \cup {name} |->
            IF a = name THEN value ELSE hello.attrs[a]]]

(* c[key]: dict lookup; other types do not take a str subscript            *)
Subscript(c, key, lineno) ==
    IF c.type = "dict"
    THEN IF key \in DOMAIN c.items
         THEN [exc |-> NoExc, value |-> c.items[key]]
         ELSE [exc |-> Raise("KeyError", key, <<>>, lineno), value |-> None]
    ELSE [exc |-> Raise("TypeError", "bad subscript", <<c>>, lineno),
          value |-> None]

----------------------------------------------------------------------------
(* Mutator.mutate_client_hello (lines 58-81) and                           *)
(* Mutator.mutate_server_hello (lines 83-105).  The two bodies are the     *)
(* same text 25 lines apart and differ only in the target they compare to; *)
(* line numbers below are those of mutate_client_hello.                    *)

LineOf(role, n) == IF role = "client" THEN n ELSE n + 25

(* Variant of TargetMatches that never skips a descriptor *)
TargetMatches_Always(target, role) == TRUE

(* lines 63 / 88: `if mutation["target"] != <role>: continue` *)
TargetMatches(target, role) == target = JStr(role)

(* Variant of ApplyRemoveField without the hasattr guard *)
ApplyRemoveField_NoGuard(role, hello, fields) ==
    LET field_name == Subscript(fields, "field_name", LineOf(role, 69))
    IN IF field_name.exc # NoExc
       THEN [hello |-> hello, exc |-> field_name.exc]
       ELSE IF field_name.value.type # "str"
       THEN [hello |-> hello,
             exc |-> Raise("TypeError", "attribute name must be string",
                           <<field_name.value>>, LineOf(role, 70))]
       ELSE [hello |-> SetAttr(hello, field_name.value.val, None),
             exc |-> NoExc]

(* lines 69-71 / 94-96 *)
ApplyRemoveField(role, hello, fields) ==
    LET field_name == Subscript(fields, "field_name", LineOf(role, 69))
    IN IF field_name.exc # NoExc
       THEN [hello |-> hello, exc |-> field_name.exc]
       ELSE IF field_name.value.type # "str"
       THEN [hello |-> hello,
             exc |-> Raise("TypeError", "attribute name must be string",
                           <<field_name.value>>, LineOf(role, 70))]
       ELSE IF HasAttr(hello, field_name.value.val)
       THEN [hello |-> SetAttr(hello, field_name.value.val, None),
             exc |-> NoExc]
       ELSE [hello |-> hello, exc |-> NoExc]

(* Variant of ApplyModifyField that assigns None, as the remove branch does *)
ApplyModifyField_SetsNone(role, hello, fields) ==
    LET field_name == Subscript(fields, "field_name", LineOf(role, 73))
        new_value == Subscript(fields, "new_value", LineOf(role, 74))
    IN IF field_name.exc # NoExc
       THEN [hello |-> hello, exc |-> field_name.exc]
       ELSE IF new_value.exc # NoExc
       THEN [hello |-> hello, exc |-> new_value.exc]
       ELSE IF field_name.value.type # "str"
       THEN [hello |-> hello,
             exc |-> Raise("TypeError", "attribute name must be string",
                           <<field_name.value>>, LineOf(role, 75))]
       ELSE IF HasAttr(hello, field_name.value.val)
       THEN [hello |-> SetAttr(hello, field_name.value.val, None),
             exc |-> NoExc]
       ELSE [hello |-> hello, exc |-> NoExc]

(* lines 73-76 / 98-101 *)
ApplyModifyField(role, hello, fields) ==
    LET field_name == Subscript(fields, "field_name", LineOf(role, 73))
        new_value == Subscript(fields, "new_value", LineOf(role, 74))
    IN IF field_name.exc # NoExc
       THEN [hello |-> hello, exc |-> field_name.exc]
       ELSE IF new_value.exc # NoExc
       THEN [hello |-> hello, exc |-> new_value.exc]
       ELSE IF field_name.value.type # "str"
       THEN [hello |-> hello,
             exc |-> Raise("TypeError", "attribute name must be string",
                           <<field_name.value>>, LineOf(role, 75))]
       ELSE IF HasAttr(hello, field_name.value.val)
       THEN [hello |-> SetAttr(hello, field_name.value.val, new_value.value),
             exc |-> NoExc]
       ELSE [hello |-> hello, exc |-> NoExc]

(* Variant of ApplyMutation that rejects a type it does not implement *)
ApplyMutation_FailLoud(role, hello, mutation_type, fields) ==
    IF mutation_type = JStr("remove_field")
    THEN ApplyRemoveField(role, hello, fields)
    ELSE IF mutation_type = JStr("modify_field")
    THEN ApplyModifyField(role, hello, fields)
    ELSE IF mutation_type = JStr("identity")
    THEN [hello |-> hello, exc |-> NoExc]
    ELSE [hello |-> hello,
          exc |-> Raise("ValueError", "Unsupported mutation type",
                        <<mutation_type>>, LineOf(role, 79))]

(* lines 68-78 / 93-103: dispatch on the mutation type; identity and any   *)
(* other type change nothing                                               *)
ApplyMutation(role, hello, mutation_type, fields) ==
    IF mutation_type = JStr("remove_field")
    THEN ApplyRemoveField(role, hello, fields)
    ELSE IF mutation_type = JStr("modify_field")
    THEN ApplyModifyField(role, hello, fields)
    ELSE [hello |-> hello, exc |-> NoExc]

(* lines 63-78 / 88-103: one iteration of the loop *)
MutateStep(role, hello, mutation) ==
    LET target == Subscript(mutation, "target", LineOf(role, 63))
        mutation_type == Subscript(mutation, "mutation_type", LineOf(role, 66))
        fields == Subscript(mutation, "fields", LineOf(role, 67))
    IN IF target.exc # NoExc THEN [hello |-> hello, exc |-> target.exc]
       ELSE IF ~TargetMatches(target.value, role)
       THEN [hello |-> hello, exc |-> NoExc]
       ELSE IF mutation_type.exc # NoExc
       THEN [hello |-> hello, exc |-> mutation_type.exc]
       ELSE IF fields.exc # NoExc
       THEN [hello |-> hello, exc |-> fields.exc]
       ELSE ApplyMutation(role, hello, mutation_type.value, fields.value)

(* lines 62-81 / 87-105: the loop over self.mutation_params in list order; *)
(* the message is mutated in place, so an exception leaves the changes     *)
(* made so far; on normal exit the same object is returned                 *)
RECURSIVE MutateLoop(_, _, _, _)
MutateLoop(role, params, i, hello) ==
    IF i > Len(params)
    THEN [hello |-> hello, exc |-> NoExc, ret |-> hello.id]
    ELSE LET r == MutateStep(role, hello, params[i])
         IN IF r.exc # NoExc
            THEN [hello |-> r.hello, exc |-> r.exc, ret |-> ""]
            ELSE MutateLoop(role, params, i + 1, r.hello)

mutate_client_hello(params, client_hello) ==
    MutateLoop("client", params, 1, client_hello)

mutate_server_hello(params, server_hello) ==
    MutateLoop("server", params, 1, server_hello)

----------------------------------------------------------------------------
(* Inputs the model draws                                                  *)

(* An object of the wire format; a key given as Absent is left out.        *)
Absent == JVal("absent", "", <<>>)
Obj(m, t, f) ==
    LET all == [k \in {"mutation", "target", "fields"} |->
                   CASE k = "mutation" -> m [] k = "target" -> t [] OTHER -> f]
    IN JDict([k \in {x \in DOMAIN all : all[x] # Absent} |-> all[k]])

FieldName(n) == JDict("field_name" :> JStr(n))
FieldNameAnd(n, k, v) == JDict(("field_name" :> JStr(n)) @@ (k :> JStr(v)))
Packet(t, c) ==
    JDict(("packet_type" :> JStr(t)) @@ ("packet_content" :> JStr(c)))

Targets == {"client", "server"}
DrawnFieldNames == {"random", "alpn_protocols"}
DrawnNewValues == {"deadbeef", "cafe"}

(* Entries that satisfy every rule of the wire format *)
ValidEntries ==
    {Obj(JStr("identity"), JStr("client"), Absent),
     Obj(JStr("identity"), JStr("client"), None),
     Obj(JStr("identity"), JStr("server"), JDict("note" :> JStr("x"))),
     Obj(JStr("remove_field"), JStr("client"),
         FieldNameAnd("random", "note", "x")),
     Obj(JStr("modify_field"), JStr("server"),
         FieldNameAnd("alpn_protocols", "new_value", "deadbeef")),
     Obj(JStr("modify_field"), JStr("client"),
         FieldNameAnd("alpn_protocols", "new_value", "deadbeef")),
     Obj(JStr("send_additional_packet"), JStr("client"),
         Packet("ClientHello", "00")),
     Obj(JStr("send_additional_packet"), JStr("server"),
         Packet("ServerHello", "00"))}
    \cup {Obj(JStr("remove_field"), JStr(t), FieldName(n)) :
            t \in Targets, n \in DrawnFieldNames}
    \cup {Obj(JStr("modify_field"), JStr(t),
              FieldNameAnd("random", "new_value", v)) :
            t \in Targets, v \in DrawnNewValues}

(* Entries that break one or several rules, or are ill-typed *)
InvalidEntries ==
    {Obj(JStr("bogus"), JStr("client"), Absent),
     Obj(Absent, JStr("client"), Absent),
     Obj(JList(<<>>), JStr("client"), Absent),
     Obj(JStr("identity"), JStr("peer"), Absent),
     Obj(JStr("identity"), Absent, Absent),
     Obj(JStr("bogus"), JStr("peer"), Absent),
     Obj(JStr("remove_field"), JStr("client"), EmptyDict),
     Obj(JStr("remove_field"), JStr("server"), Absent),
     Obj(JStr("remove_field"), JStr("client"), FieldName("not_a_real_field")),
     Obj(JStr("remove_field"), JStr("peer"), FieldName("not_a_real_field")),
     Obj(JStr("modify_field"), JStr("client"), FieldName("random")),
     Obj(JStr("modify_field"), JStr("client"), FieldName("not_a_real_field")),
     Obj(JStr("modify_field"), JStr("server"),
         JDict("new_value" :> JStr("deadbeef"))),
     Obj(JStr("send_additional_packet"), JStr("client"),
         Packet("HelloRetry", "00")),
     Obj(JStr("send_additional_packet"), JStr("client"),
         JDict("packet_type" :> JStr("ClientHello"))),
     Obj(JStr("send_additional_packet"), JStr("server"),
         JDict("packet_content" :> JStr("00"))),
     Obj(JStr("remove_field"), JStr("client"), None),
     Obj(JStr("remove_field"), JStr("client"), JList(<<>>)),
     Obj(JStr("remove_field"), JStr("client"),
         JList(<<JStr("field_name")>>)),
     Obj(JStr("remove_field"), JStr("client"), JStr("a field_name b")),
     JInt("7"),
     JStr("x")}

Entries == ValidEntries \cup InvalidEntries

SeqsUpTo(S, n) == UNION {[1..k -> S] : k \in 0..n}

(* Raw texts: malformed text, texts denoting a non-array, and texts        *)
(* denoting an array of at most MaxLen entries                             *)
RawTexts ==
    {Malformed, Text(EmptyDict), Text(JDict("a" :> JInt("1"))),
     Text(JInt("7")), Text(None), Text(JStr("")), Text(JStr("x"))}
    \cup {Text(JList(es)) : es \in SeqsUpTo(Entries, MaxLen)}

(* A mutation step written as the class docstring documents it,            *)
(* lines 38-48: keys "mutation", "target", "fields"                        *)
DocStep(m, t, f) == Obj(JStr(m), JStr(t), f)

(* Lists handed to Mutator(...) directly, without parse_mutation_params *)
DirectSteps ==
    {DocStep("remove_field", "client", FieldName("random")),
     DocStep("modify_field", "server",
             FieldNameAnd("random", "new_value", "deadbeef")),
     DocStep("identity", "client", EmptyDict),
     BuildDescriptor(JStr("future_kind"), JStr("client"), EmptyDict),
     BuildDescriptor(JStr("future_kind"), JStr("server"),
                     FieldName("random"))}
DirectLists == SeqsUpTo(DirectSteps, MaxLen)

(* Messages handed to the engine: any subset of the drawn field names      *)
(* exposed, each holding its original value or None                        *)
OrigValue == JStr("orig")
Hellos ==
    {[id |-> "hello", attrs |-> a] :
        a \in UNION {[d -> {OrigValue, None}] : d \in SUBSET DrawnFieldNames}}
NoHello == [id |-> "", attrs |-> <<>>]

----------------------------------------------------------------------------
(* State                                                                   *)
(*   param_str        the text given to parse_mutation_params (NoText      *)
(*                    before the call)                                     *)
(*   parsed           what parse_mutation_params returned or raised        *)
(*   mutation_params  self.mutation_params of the Mutator                  *)
(*   origin           "none" before Mutator(...) is constructed, "parse"   *)
(*                    when it was given the list parse_mutation_params     *)
(*                    returned, "direct" when given a hand-written list    *)
(*   call             the last mutate_*_hello call: the method, the        *)
(*                    message before and after, the returned object, the   *)
(*                    exception, and whether the argument was the message  *)
(*                    the previous call of the same method left            *)

NoCall == [op |-> "none", before |-> NoHello, after |-> NoHello, ret |-> "",
           exc |-> NoExc, again |-> FALSE]

Init ==
    /\ param_str = NoText
    /\ parsed = [ok |-> FALSE, value |-> <<>>, exc |-> NoExc]
    /\ mutation_params = <<>>
    /\ origin = "none"
    /\ call = NoCall

(* The caller parses a raw text, once per test case (main, line 179) *)
ParseMutationParams ==
    /\ param_str = NoText
    /\ origin = "none"
    /\ \E s \in RawTexts :
          /\ param_str' = s
          /\ parsed' = parse_mutation_params(s)
    /\ UNCHANGED <<mutation_params, origin, call>>

(* Mutator(mutations) with the list parse returned (main, line 181) *)
InitFromParsed ==
    /\ origin = "none"
    /\ param_str # NoText
    /\ parsed.ok
    /\ mutation_params' = parsed.value
    /\ origin' = "parse"
    /\ UNCHANGED <<param_str, parsed, call>>

(* Mutator(steps) with a hand-written list (__init__, lines 55-56) *)
InitDirect ==
    /\ origin = "none"
    /\ param_str = NoText
    /\ \E steps \in DirectLists : mutation_params' = steps
    /\ origin' = "direct"
    /\ UNCHANGED <<param_str, parsed, call>>

(* The messages a call may be given: a fresh one, or the one the previous  *)
(* call of the same method left                                            *)
Arguments(op) == Hellos \cup (IF call.op = op THEN {call.after} ELSE {})

Record(op, hello, r) ==
    [op |-> op, before |-> hello, after |-> r.hello, ret |-> r.ret,
     exc |-> r.exc, again |-> (call.op = op /\ hello = call.after)]

MutateClientHello ==
    /\ origin # "none"
    /\ \E hello \in Arguments("client") :
          call' = Record("client", hello,
                         mutate_client_hello(mutation_params, hello))
    /\ UNCHANGED <<param_str, parsed, mutation_params, origin>>

MutateServerHello ==
    /\ origin # "none"
    /\ \E hello \in Arguments("server") :
          call' = Record("server", hello,
                         mutate_server_hello(mutation_params, hello))
    /\ UNCHANGED <<param_str, parsed, mutation_params, origin>>

Next ==
    \/ ParseMutationParams
    \/ InitFromParsed
    \/ InitDirect
    \/ MutateClientHello
    \/ MutateServerHello

Spec == Init /\ [][Next]_vars

----------------------------------------------------------------------------
(* The wire format as the specification states it (sections 3 and 6)       *)

WireKinds == {"identity", "remove_field", "modify_field",
              "send_additional_packet"}
WireTargets == {"client", "server"}
WireRequired ==
    [identity |-> <<>>,
     remove_field |-> <<"field_name">>,
     modify_field |-> <<"field_name", "new_value">>,
     send_additional_packet |-> <<"packet_type", "packet_content">>]
WireFieldNames ==
    {"random", "legacy_session_id", "cipher_suites",
     "legacy_compression_methods", "alpn_protocols", "early_data",
     "key_share", "pre_shared_key", "psk_key_exchange_modes", "server_name",
     "signature_algorithms", "supported_groups", "supported_versions",
     "other_extensions"}
WirePacketTypes == {"ClientHello", "ServerHello"}

StrIn(v, S) == v.type = "str" /\ v.val \in S
SeqRange(q) == {q[i] : i \in DOMAIN q}

(* kind, target and fields satisfy every rule of the wire format *)
WireValid(kind, target, fields) ==
    /\ StrIn(kind, WireKinds)
    /\ StrIn(target, WireTargets)
    /\ \/ WireRequired[kind.val] = <<>>
       \/ /\ fields.type = "dict"
          /\ SeqRange(WireRequired[kind.val]) \subseteq DOMAIN fields.items
          /\ "field_name" \in SeqRange(WireRequired[kind.val])
                => StrIn(fields.items["field_name"], WireFieldNames)
          /\ "packet_type" \in SeqRange(WireRequired[kind.val])
                => StrIn(fields.items["packet_type"], WirePacketTypes)

(* an entry of the input array is valid; a missing key reads as null,      *)
(* a missing `fields` as the empty mapping                                 *)
ValidEntry(e) ==
    /\ e.type = "dict"
    /\ WireValid(DictGet(e, "mutation", None), DictGet(e, "target", None),
                 DictGet(e, "fields", EmptyDict))

IsDescriptor(d) ==
    d.type = "dict" /\ {"mutation_type", "target", "fields"} \subseteq DOMAIN d.items

ValidDescriptor(d) ==
    /\ IsDescriptor(d)
    /\ WireValid(d.items["mutation_type"], d.items["target"], d.items["fields"])

IsArrayText(s) == s.wellformed /\ s.json.type = "list"
InputEntries == param_str.json.items
InvalidIndexes == {i \in DOMAIN InputEntries : ~ValidEntry(InputEntries[i])}

(* C1: for every input array of objects, an invalid entry makes parse fail *)
(* with InvalidMutationSpec (ValueError), and every descriptor of a        *)
(* returned list satisfies the rules of the wire format.                   *)
C1_InvalidEntryRaisesValueError ==
    (IsArrayText(param_str)
       /\ \A i \in DOMAIN InputEntries : InputEntries[i].type = "dict") =>
        /\ InvalidIndexes # {} => (~parsed.ok /\ IsValueError(parsed.exc))
        /\ parsed.ok =>
              \A i \in DOMAIN parsed.value : ValidDescriptor(parsed.value[i])

(* C2: whenever parse does not return a list, the failure is the single    *)
(* typed failure InvalidMutationSpec (ValueError) and no other error kind. *)
C2_OnlyValueErrorSurfaces ==
    (param_str # NoText /\ ~parsed.ok) => IsValueError(parsed.exc)

(* C6: for every valid mutation-list text, parse returns a list of the     *)
(* input's length whose i-th descriptor carries the i-th entry's kind,     *)
(* target and fields mapping unchanged, extra keys included; an entry      *)
(* without `fields` yields the empty mapping.                              *)
C6_ParsePreservesEntries ==
    (IsArrayText(param_str) /\ InvalidIndexes = {}) =>
        /\ parsed.ok
        /\ Len(parsed.value) = Len(InputEntries)
        /\ \A i \in DOMAIN InputEntries :
              LET d == parsed.value[i]
                  e == InputEntries[i]
              IN /\ IsDescriptor(d)
                 /\ d.items["mutation_type"] = e.items["mutation"]
                 /\ d.items["target"] = e.items["target"]
                 /\ d.items["fields"] =
                       IF "fields" \in DOMAIN e.items THEN e.items["fields"]
                       ELSE EmptyDict

(* a two-entry valid text whose first entry has an extra key in `fields`   *)
(* and whose second has no `fields`, parsed                                *)
C6_Witness ==
    /\ IsArrayText(param_str)
    /\ InvalidIndexes = {}
    /\ Len(InputEntries) = 2
    /\ InputEntries[1] = Obj(JStr("remove_field"), JStr("client"),
                             FieldNameAnd("random", "note", "x"))
    /\ "fields" \notin DOMAIN InputEntries[2].items
    /\ parsed.ok
    /\ "note" \in DOMAIN parsed.value[1].items["fields"].items
    /\ parsed.value[2].items["fields"] = EmptyDict

(* The checks of one well-typed entry that fail, each judged on its own,   *)
(* ranked in the order the specification gives: kind, target, then for the *)
(* j-th required parameter its presence and its enum membership.           *)
WellTypedEntry(e) ==
    /\ e.type = "dict"
    /\ DictGet(e, "mutation", None).type \in {"str", "NoneType", "int"}
    /\ DictGet(e, "fields", EmptyDict).type = "dict"

Violation(r, m, a) == [rank |-> r, msg |-> m, arg |-> a]

ParamViolations(kind, fields, j) ==
    LET p == WireRequired[kind.val][j]
    IN IF p \notin DOMAIN fields.items
       THEN {Violation(2 * j + 1, "Missing required field", <<JStr(p), kind>>)}
       ELSE IF p = "field_name" /\ ~StrIn(fields.items[p], WireFieldNames)
       THEN {Violation(2 * j + 2, "Invalid field name", <<fields.items[p]>>)}
       ELSE IF p = "packet_type" /\ ~StrIn(fields.items[p], WirePacketTypes)
       THEN {Violation(2 * j + 2, "Invalid packet type", <<fields.items[p]>>)}
       ELSE {}

Violations(e) ==
    LET kind == DictGet(e, "mutation", None)
        target == DictGet(e, "target", None)
        fields == DictGet(e, "fields", EmptyDict)
    IN (IF StrIn(kind, WireKinds) THEN {}
        ELSE {Violation(1, "Invalid mutation type", <<kind>>)})
       \cup (IF StrIn(target, WireTargets) THEN {}
             ELSE {Violation(2, "Invalid target", <<target>>)})
       \cup (IF StrIn(kind, WireKinds)
             THEN UNION {ParamViolations(kind, fields, j) :
                           j \in DOMAIN WireRequired[kind.val]}
             ELSE {})

EarliestViolation(e) ==
    CHOOSE v \in Violations(e) : \A w \in Violations(e) : v.rank <= w.rank

FirstInvalidIndex ==
    CHOOSE i \in InvalidIndexes : \A j \in InvalidIndexes : i <= j

(* C8: entries are checked in array order and, within an entry, in the     *)
(* order kind, target, required parameters (presence, then enum            *)
(* membership); the error raised is that of the earliest failing check,    *)
(* and no partial list is returned.                                        *)
C8_FirstFailingCheckRaises ==
    (IsArrayText(param_str) /\ InvalidIndexes # {}) =>
        /\ ~parsed.ok
        /\ parsed.value = <<>>
        /\ WellTypedEntry(InputEntries[FirstInvalidIndex]) =>
              LET v == EarliestViolation(InputEntries[FirstInvalidIndex])
              IN /\ parsed.exc.type = "ValueError"
                 /\ parsed.exc.msg = v.msg
                 /\ parsed.exc.arg = v.arg

(* a valid entry followed by an entry with a bad kind and a bad target:    *)
(* the kind is reported, and nothing is returned for the first entry       *)
C8_Witness ==
    /\ IsArrayText(param_str)
    /\ Len(InputEntries) = 2
    /\ ValidEntry(InputEntries[1])
    /\ InputEntries[2] = Obj(JStr("bogus"), JStr("peer"), Absent)
    /\ Cardinality(Violations(InputEntries[2])) = 2
    /\ ~parsed.ok
    /\ parsed.exc.msg = "Invalid mutation type"

----------------------------------------------------------------------------
(* The engine                                                              *)

Called == call.op # "none"
Matching(d) == d.items["target"] = JStr(call.op)

IsRemoveField(d) ==
    /\ IsDescriptor(d)
    /\ d.items["mutation_type"] = JStr("remove_field")
    /\ d.items["fields"].type = "dict"
    /\ "field_name" \in DOMAIN d.items["fields"].items
    /\ d.items["fields"].items["field_name"].type = "str"

IsModifyField(d) ==
    /\ IsDescriptor(d)
    /\ d.items["mutation_type"] = JStr("modify_field")
    /\ d.items["fields"].type = "dict"
    /\ {"field_name", "new_value"} \subseteq DOMAIN d.items["fields"].items
    /\ d.items["fields"].items["field_name"].type = "str"

FieldOf(d) == d.items["fields"].items["field_name"].val
NewValueOf(d) == d.items["fields"].items["new_value"]

(* the message after the call has the attributes it had before, each       *)
(* holding what `expected` gives for it                                    *)
AfterIs(expected(_)) ==
    /\ call.after.id = call.before.id
    /\ DOMAIN call.after.attrs = DOMAIN call.before.attrs
    /\ \A a \in DOMAIN call.before.attrs : call.after.attrs[a] = expected(a)

(* C3: applying one target-matching RemoveField descriptor makes the named *)
(* field read None if the message exposes it and leaves every other field  *)
(* unchanged; a field already None, or a name the message does not expose, *)
(* leaves the message unchanged; no error is raised.                       *)
C3_RemoveFieldClearsOnlyThatField ==
    (Called /\ Len(mutation_params) = 1
       /\ IsRemoveField(mutation_params[1]) /\ Matching(mutation_params[1])) =>
        /\ call.exc = NoExc
        /\ AfterIs(LAMBDA a : IF a = FieldOf(mutation_params[1]) THEN None
                              ELSE call.before.attrs[a])

(* remove `random` from a ServerHello holding random and alpn_protocols *)
C3_Witness ==
    /\ call.op = "server"
    /\ Len(mutation_params) = 1
    /\ IsRemoveField(mutation_params[1])
    /\ Matching(mutation_params[1])
    /\ FieldOf(mutation_params[1]) = "random"
    /\ DOMAIN call.before.attrs = {"random", "alpn_protocols"}
    /\ call.before.attrs["random"] = OrigValue
    /\ call.before.attrs["alpn_protocols"] = OrigValue
    /\ call.after.attrs["random"] = None

(* C4: applying one target-matching ModifyField descriptor makes the named *)
(* field equal new_value exactly if the message exposes it and leaves      *)
(* every other field unchanged; a name the message does not expose leaves  *)
(* the message unchanged; no error is raised.                              *)
C4_ModifyFieldSetsNewValue ==
    (Called /\ Len(mutation_params) = 1
       /\ IsModifyField(mutation_params[1]) /\ Matching(mutation_params[1])) =>
        /\ call.exc = NoExc
        /\ AfterIs(LAMBDA a : IF a = FieldOf(mutation_params[1])
                              THEN NewValueOf(mutation_params[1])
                              ELSE call.before.attrs[a])

(* set `random` to "deadbeef" on a ServerHello holding two fields *)
C4_Witness ==
    /\ call.op = "server"
    /\ Len(mutation_params) = 1
    /\ IsModifyField(mutation_params[1])
    /\ Matching(mutation_params[1])
    /\ FieldOf(mutation_params[1]) = "random"
    /\ DOMAIN call.before.attrs = {"random", "alpn_protocols"}
    /\ call.before.attrs["random"] = OrigValue
    /\ call.after.attrs["random"] = JStr("deadbeef")
    /\ call.after.attrs["alpn_protocols"] = call.before.attrs["alpn_protocols"]

MatchingOnly == SelectSeq(mutation_params, Matching)

(* C5: a call changes the message only through the descriptors whose       *)
(* target is its own role: its result is that of the list with every       *)
(* non-matching descriptor deleted, and a list with no matching descriptor *)
(* leaves the message unchanged.                                           *)
C5_OnlyMatchingTargetsApply ==
    Called =>
        LET r == MutateLoop(call.op, MatchingOnly, 1, call.before)
        IN /\ call.after = r.hello
           /\ call.exc = r.exc
           /\ call.ret = r.ret
           /\ MatchingOnly = <<>> =>
                 (call.after = call.before /\ call.exc = NoExc)

(* a client call with a list of a server-targeted remove and a             *)
(* client-targeted modify, on a message the remove would have changed      *)
C5_Witness ==
    /\ call.op = "client"
    /\ origin = "parse"
    /\ Len(mutation_params) = 2
    /\ IsRemoveField(mutation_params[1])
    /\ ~Matching(mutation_params[1])
    /\ FieldOf(mutation_params[1]) = "alpn_protocols"
    /\ IsModifyField(mutation_params[2])
    /\ Matching(mutation_params[2])
    /\ FieldOf(mutation_params[2]) = "random"
    /\ DOMAIN call.before.attrs = {"random", "alpn_protocols"}
    /\ call.before.attrs["alpn_protocols"] = OrigValue
    /\ call.after.attrs["alpn_protocols"] = OrigValue
    /\ call.after.attrs["random"] # call.before.attrs["random"]

(* no matching descriptor of the list removes or modifies a field *)
OnlyNoOpKinds ==
    \A i \in DOMAIN mutation_params :
        /\ IsDescriptor(mutation_params[i])
        /\ Matching(mutation_params[i]) =>
              mutation_params[i].items["mutation_type"] \notin
                  {JStr("remove_field"), JStr("modify_field")}

(* C7: an empty list, and matching descriptors of kind identity,           *)
(* send_additional_packet or any kind other than remove_field and          *)
(* modify_field, leave every field unchanged and raise nothing; for every  *)
(* list parse returned, both calls complete without raising and return the *)
(* message object they were given.                                         *)
C7_NoOpKindsAndNoRaise ==
    /\ (Called /\ OnlyNoOpKinds) =>
          /\ call.exc = NoExc
          /\ call.after = call.before
          /\ call.ret = call.before.id
    /\ (Called /\ origin = "parse") =>
          /\ call.exc = NoExc
          /\ call.ret = call.before.id
          /\ call.after.id = call.before.id

(* a matching descriptor of a kind the engine does not know, followed by a *)
(* matching send_additional_packet or identity, applied to a message with  *)
(* fields                                                                  *)
C7_Witness ==
    /\ Called
    /\ OnlyNoOpKinds
    /\ call.before.attrs # <<>>
    /\ \E i \in DOMAIN mutation_params :
          /\ Matching(mutation_params[i])
          /\ mutation_params[i].items["mutation_type"] = JStr("future_kind")
    /\ call.exc = NoExc
    /\ call.after = call.before

(* the descriptors that write field a in a call, by position *)
Writers(a) ==
    {i \in DOMAIN mutation_params :
        /\ Matching(mutation_params[i])
        /\ IsRemoveField(mutation_params[i]) \/ IsModifyField(mutation_params[i])
        /\ FieldOf(mutation_params[i]) = a}

LastWriter(a) == CHOOSE i \in Writers(a) : \A j \in Writers(a) : j <= i

LastWriterValue(a) ==
    IF Writers(a) = {} THEN call.before.attrs[a]
    ELSE IF IsRemoveField(mutation_params[LastWriter(a)]) THEN None
    ELSE NewValueOf(mutation_params[LastWriter(a)])

(* C10: descriptors apply in list order, last writer wins per field: after *)
(* a call with a validated list each exposed field holds the outcome of    *)
(* the last matching RemoveField/ModifyField naming it (None, or           *)
(* new_value), or its original value if there is none; a ModifyField after *)
(* a RemoveField of the same field is not skipped; applying the same list  *)
(* to the result again changes nothing.                                    *)
C10_LastWriterWins ==
    (Called /\ origin = "parse") =>
        /\ call.exc = NoExc
        /\ AfterIs(LastWriterValue)
        /\ call.again => call.after = call.before

(* remove `random` then modify `random`, on a message holding it: the      *)
(* field ends as new_value                                                 *)
C10_Witness ==
    /\ call.op = "client"
    /\ origin = "parse"
    /\ Len(mutation_params) = 2
    /\ IsRemoveField(mutation_params[1])
    /\ IsModifyField(mutation_params[2])
    /\ Matching(mutation_params[1])
    /\ Matching(mutation_params[2])
    /\ FieldOf(mutation_params[1]) = "random"
    /\ FieldOf(mutation_params[2]) = "random"
    /\ "random" \in DOMAIN call.before.attrs
    /\ call.before.attrs["random"] = OrigValue
    /\ call.after.attrs["random"] = NewValueOf(mutation_params[2])

(* the list handed to Mutator(...) is written as the class docstring says  *)
IsDocStep(d) ==
    d.type = "dict" /\ DOMAIN d.items = {"mutation", "target", "fields"}
DocFormat(steps) == \A i \in DOMAIN steps : IsDocStep(steps[i])

(* the descriptors parse_mutation_params produces for documented steps *)
AsParsed(steps) ==
    [i \in DOMAIN steps |->
        BuildDescriptor(steps[i].items["mutation"], steps[i].items["target"],
                        steps[i].items["fields"])]

(* C9: a Mutator built from steps in the format its docstring documents    *)
(* (keys "mutation", "target", "fields") applies every matching step with  *)
(* the effect of the descriptor parse_mutation_params produces for it, and *)
(* the list parse_mutation_params returns is in that documented format.    *)
C9_DocumentedFormatIsApplied ==
    /\ parsed.ok => DocFormat(parsed.value)
    /\ (Called /\ origin = "direct" /\ DocFormat(mutation_params)) =>
          LET r == MutateLoop(call.op, AsParsed(mutation_params), 1,
                              call.before)
          IN /\ call.exc = NoExc
             /\ call.after = r.hello

====
